---- MODULE Spec2Model ----
(***************************************************************************)
(* Model of the CompasBD account backend core: the in-memory rate limiter  *)
(* (app/services/security_service.py), the verification-code manager       *)
(* (app/services/verification_service.py) and the authentication core      *)
(* (app/services/auth_service.py, app/database/collections.py,             *)
(* app/routes/auth.py).                                                    *)
(*                                                                         *)
(* Time is discrete; one unit is one minute.  Request handlers are         *)
(* coroutines on one event loop: a handler runs without interruption       *)
(* between two awaits, so every action below is the code between two       *)
(* consecutive awaits of one handler.                                      *)
(***************************************************************************)
EXTENDS Integers, Sequences, FiniteSets, TLC

VARIABLES now, request_counts, win, rl_ret, unswept, users, pc, loc, ret,
          tokens, hist

vars == <<now, request_counts, win, rl_ret, unswept, users, pc, loc, ret, tokens, hist>>

rlVars == <<request_counts, win, rl_ret, unswept>>
storeVars == <<users, pc, loc, ret, tokens, hist>>

(***************************************************************************)
(* Bounds of the model.                                                    *)
(***************************************************************************)
MaxTime == 30
TimeStep == 5
MaxTimeRL == 4
MaxReq == 3
MaxWin == 2
MaxFailed == 7
MaxTokens == 2
MaxWinAcc == 5
MaxTimeAcc == 6
MaxReqKeys == 1
MaxWinKeys == 1
MaxTimeKeys == 2

(***************************************************************************)
(* Input domains.                                                          *)
(***************************************************************************)
NoUser == "none"
UserIds == {"u1"}
Ips == {"ip1"}
Endpoints == {"login"}
Procs == {"p1", "p2"}
\* identities the rate-limited requests come from
RLUsers == {NoUser}

None == -1

Emails == {"e1", "e0"}
Passwords == {"pw1", "pw2"}
\* the codes generate_verification_code can return and a caller can submit
Codes == {"c1", "c2"}
\* the reset tokens generate_verification_token can return, and one it cannot
ResetTokens == {"r1"}
BadResetToken == "r0"

(***************************************************************************)
(* Settings (app/config/settings.py; the values come from the environment) *)
(***************************************************************************)
MAX_LOGIN_ATTEMPTS == 5
LOCKOUT_DURATION_MINUTES == 15
JWT_ACCESS_TOKEN_EXPIRE_MINUTES == 15
JWT_REFRESH_TOKEN_EXPIRE_DAYS == 7
MinutesPerDay == 24 * 60
CODE_EXPIRATION_MINUTES == 15
MAX_ATTEMPTS == 5
RESET_TOKEN_EXPIRE_MINUTES == 60

(***************************************************************************)
(* Rate limiter (SecurityService).                                         *)
(***************************************************************************)
\* a key that is always derived from the ip
GetRateLimitKeyByIp(ip, endpoint, user_id) == <<"ip", ip, endpoint>>

GetRateLimitKey(ip, endpoint, user_id) ==
    IF user_id # NoUser THEN <<"user", user_id, endpoint>>
                        ELSE <<"ip", ip, endpoint>>

AllKeys == {GetRateLimitKey(ip, ep, u) : ip \in Ips, ep \in Endpoints, u \in RLUsers}

\* int(max_requests * 1.5)
EffectiveMax(max_requests, is_accessibility_user) ==
    IF is_accessibility_user THEN (max_requests * 3) \div 2 ELSE max_requests

\* int(window_minutes * 1.2)
EffectiveWindow(window_minutes, is_accessibility_user) ==
    IF is_accessibility_user THEN (window_minutes * 6) \div 5 ELSE window_minutes

\* a fresh window that does not count the call that opens it
NewEntryZero(t, w) == [count |-> 0, first_request |-> t, expires |-> t + w]

NewEntry(t, w) == [count |-> 1, first_request |-> t, expires |-> t + w]

\* the dict after "self.request_counts[key] = entry"
SetEntry(rc, key, entry) ==
    [k \in DOMAIN rc \cup {key} |-> IF k = key THEN entry ELSE rc[k]]

\* an increment that is lost
IncrementCountLost(rc, key) == rc

\* the dict after "self.request_counts[key]['count'] += 1"
IncrementCount(rc, key) ==
    [rc EXCEPT ![key].count = rc[key].count + 1]

\* the limit test written with > instead of >=
RateBranchOffByOne(rc, key, t, m) ==
    IF key \notin DOMAIN rc THEN "new"
    ELSE IF t > rc[key].expires THEN "reset"
    ELSE IF rc[key].count > m THEN "deny"
    ELSE "count"

\* which branch of check_rate_limit a call takes
RateBranch(rc, key, t, m) ==
    IF key \notin DOMAIN rc THEN "new"
    ELSE IF t > rc[key].expires THEN "reset"
    ELSE IF rc[key].count >= m THEN "deny"
    ELSE "count"

\* a limiter that opens windows but leaves the count of later calls alone
RateStoreUncounted(rc, key, t, m, w) ==
    IF RateBranch(rc, key, t, m) \in {"new", "reset"}
    THEN SetEntry(rc, key, NewEntry(t, w))
    ELSE rc

\* the dict check_rate_limit leaves behind
RateStore(rc, key, t, m, w) ==
    LET b == RateBranch(rc, key, t, m) IN
    IF b \in {"new", "reset"} THEN SetEntry(rc, key, NewEntry(t, w))
    ELSE IF b = "count" THEN IncrementCount(rc, key)
    ELSE rc

\* the dict check_rate_limit returns
RateResult(rc, key, t, m, w) ==
    LET b == RateBranch(rc, key, t, m)
        after == RateStore(rc, key, t, m, w)
    IN  IF b \in {"new", "reset"} THEN
            [allowed |-> TRUE, requests_remaining |-> m - 1,
             reset_time |-> after[key].expires, retry_after |-> None]
        ELSE IF b = "deny" THEN
            [allowed |-> FALSE, requests_remaining |-> 0,
             reset_time |-> rc[key].expires,
             retry_after |-> rc[key].expires - t]
        ELSE
            [allowed |-> TRUE, requests_remaining |-> m - after[key].count,
             reset_time |-> rc[key].expires, retry_after |-> None]

\* Bookkeeping of the calls made for a key since its current entry was
\* created: how many calls, how many were allowed, the effective quota and
\* window of the call that opened the window, and whether every call since
\* used that same quota and window.
NoWin == [calls |-> 0, allowed |-> 0, emax |-> 0, ewin |-> 0, same |-> TRUE,
          log |-> <<>>]

WinAfter(wk, branch, allowed, m, w) ==
    IF branch \in {"new", "reset"}
    THEN [calls |-> 1, allowed |-> 1, emax |-> m, ewin |-> w, same |-> TRUE,
          log |-> wk.log]
    ELSE [calls |-> wk.calls + 1,
          allowed |-> wk.allowed + (IF allowed THEN 1 ELSE 0),
          emax |-> wk.emax, ewin |-> wk.ewin,
          same |-> wk.same /\ m = wk.emax /\ w = wk.ewin,
          log |-> wk.log]

MaxCalls == EffectiveMax(MaxReq, TRUE) + 2

NoRlRet == [key |-> <<>>, branch |-> "none", allowed |-> TRUE,
            requests_remaining |-> 0, reset_time |-> None,
            retry_after |-> None, at |-> None, nth |-> 0, same |-> TRUE,
            emax |-> 0, was_denied |-> FALSE, swept |-> FALSE,
            unswept |-> <<>>, would_deny |-> FALSE,
            paired |-> FALSE, plain_allowed |-> FALSE,
            ip |-> "", endpoint |-> "", user_id |-> NoUser, prev_ip |-> ""]

\* the fields of a result that every branch of check_rate_limit returns
Outcome(r) == [allowed |-> r.allowed,
               requests_remaining |-> r.requests_remaining,
               reset_time |-> r.reset_time]

check_rate_limit(ip, endpoint, max_requests, window_minutes, user_id, is_accessibility_user) ==
    LET key == GetRateLimitKey(ip, endpoint, user_id)
        m == EffectiveMax(max_requests, is_accessibility_user)
        w == EffectiveWindow(window_minutes, is_accessibility_user)
        b == RateBranch(request_counts, key, now, m)
        r == RateResult(request_counts, key, now, m, w)
        wa == WinAfter(win[key], b, r.allowed, m, w)
        after == RateStore(request_counts, key, now, m, w)
    IN  /\ b \in {"deny", "count"} => win[key].calls < MaxCalls
        /\ request_counts' = after
        /\ win' = [win EXCEPT ![key] = wa]
        /\ rl_ret' = [NoRlRet EXCEPT
                        !.key = key, !.branch = b, !.allowed = r.allowed,
                        !.requests_remaining = r.requests_remaining,
                        !.reset_time = r.reset_time,
                        !.retry_after = r.retry_after, !.at = now,
                        !.nth = wa.calls, !.same = wa.same, !.emax = wa.emax,
                        !.was_denied = (rl_ret.key = key /\ ~rl_ret.allowed),
                        !.swept = (key \notin DOMAIN request_counts
                                   /\ key \in DOMAIN unswept),
                        !.unswept = Outcome(RateResult(unswept, key, now, m, w))]
        /\ unswept' = RateStore(unswept, key, now, m, w)
        /\ UNCHANGED <<now, storeVars>>

\* a fault result that denies the request
FaultResultDeny(e) == [allowed |-> FALSE, error |-> e]

\* the dict returned by the except branch
FaultResult(e) == [allowed |-> TRUE, error |-> e]

\* a call in which an exception is raised inside the try block; every
\* statement that can raise comes before the statement that writes the map,
\* so the map is as it was
check_rate_limit_fault(ip, endpoint, max_requests, window_minutes, user_id, is_accessibility_user) ==
    LET key == GetRateLimitKey(ip, endpoint, user_id)
        m == EffectiveMax(max_requests, is_accessibility_user)
        w == EffectiveWindow(window_minutes, is_accessibility_user)
        r == FaultResult("fault")
    IN  /\ UNCHANGED <<request_counts, unswept>>
        /\ rl_ret' = [NoRlRet EXCEPT !.key = key, !.branch = "fault",
                                     !.allowed = r.allowed, !.same = FALSE,
                                     !.would_deny =
                                        (RateBranch(request_counts, key, now, m) = "deny")]
        /\ UNCHANGED <<now, win, storeVars>>

CheckRateLimitFault ==
    \E ip \in Ips, ep \in Endpoints, u \in RLUsers,
       mx \in 1..MaxReq, wn \in 1..MaxWin, acc \in BOOLEAN :
        check_rate_limit_fault(ip, ep, mx, wn, u, acc)

CheckRateLimit ==
    \E ip \in Ips, ep \in Endpoints, u \in RLUsers,
       mx \in 1..MaxReq, wn \in 1..MaxWin, acc \in BOOLEAN :
        check_rate_limit(ip, ep, mx, wn, u, acc)

\* The same request made by two callers at the same instant: one without
\* user data, limited under the key of its address with the base quota, and
\* one signed in with accessibility needs, limited under the key of its user
\* with the adjusted quota.  The base quota of an endpoint is a fixed
\* setting, so every pair of calls uses the quota of the first one.
check_rate_limit_both(ip, endpoint, max_requests, window_minutes, user_id) ==
    LET pkey == GetRateLimitKey(ip, endpoint, NoUser)
        akey == GetRateLimitKey(ip, endpoint, user_id)
        pm == EffectiveMax(max_requests, FALSE)
        pw == EffectiveWindow(window_minutes, FALSE)
        am == EffectiveMax(max_requests, TRUE)
        aw == EffectiveWindow(window_minutes, TRUE)
        pb == RateBranch(request_counts, pkey, now, pm)
        pr == RateResult(request_counts, pkey, now, pm, pw)
        rc1 == RateStore(request_counts, pkey, now, pm, pw)
        ab == RateBranch(rc1, akey, now, am)
        ar == RateResult(rc1, akey, now, am, aw)
        rc2 == RateStore(rc1, akey, now, am, aw)
        pwa == WinAfter(win[pkey], pb, pr.allowed, pm, pw)
        awa == WinAfter(win[akey], ab, ar.allowed, am, aw)
        un1 == RateStore(unswept, pkey, now, pm, pw)
    IN  /\ user_id # NoUser
        /\ win[pkey].emax # 0 => (pm = win[pkey].emax /\ pw = win[pkey].ewin)
        /\ pb \in {"deny", "count"} => win[pkey].calls < MaxCalls
        /\ ab \in {"deny", "count"} => win[akey].calls < MaxCalls
        /\ request_counts' = rc2
        /\ win' = [win EXCEPT ![pkey] = pwa, ![akey] = awa]
        /\ rl_ret' = [NoRlRet EXCEPT
                        !.key = akey, !.branch = ab, !.allowed = ar.allowed,
                        !.requests_remaining = ar.requests_remaining,
                        !.reset_time = ar.reset_time,
                        !.retry_after = ar.retry_after, !.at = now,
                        !.nth = awa.calls, !.same = awa.same, !.emax = awa.emax,
                        !.paired = TRUE, !.plain_allowed = pr.allowed]
        /\ unswept' = RateStore(un1, akey, now, am, aw)
        /\ UNCHANGED <<now, storeVars>>

CheckRateLimitBoth ==
    \E ip \in Ips, ep \in Endpoints, u \in UserIds,
       mx \in 1..MaxReq, wn \in 1..MaxWinAcc :
        check_rate_limit_both(ip, ep, mx, wn, u)

\* the times in the log that lie in the interval (t - w, t]
Recent(log, t, w) == SelectSeq(log, LAMBDA x : x > t - w)

\* the log of the times at which a key's requests were allowed, after a call
\* made at time t
LogAfter(log, allowed, t, w) ==
    IF allowed THEN Append(Recent(log, t, w), t) ELSE Recent(log, t, w)

\* A call for a key whose quota never changes (the quota of an endpoint is a
\* fixed setting and the accessibility flag belongs to the caller), with a
\* record of the times at which the key's requests were allowed.
check_rate_limit_fixed(ip, endpoint, max_requests, window_minutes, user_id, is_accessibility_user) ==
    LET key == GetRateLimitKey(ip, endpoint, user_id)
        m == EffectiveMax(max_requests, is_accessibility_user)
        w == EffectiveWindow(window_minutes, is_accessibility_user)
        b == RateBranch(request_counts, key, now, m)
        r == RateResult(request_counts, key, now, m, w)
        wa == WinAfter(win[key], b, r.allowed, m, w)
        after == RateStore(request_counts, key, now, m, w)
    IN  /\ win[key].emax # 0 => (m = win[key].emax /\ w = win[key].ewin)
        /\ b \in {"deny", "count"} => win[key].calls < MaxCalls
        /\ request_counts' = after
        /\ win' = [win EXCEPT ![key] =
                        [wa EXCEPT !.log = LogAfter(win[key].log, r.allowed, now, w)]]
        /\ rl_ret' = [NoRlRet EXCEPT
                        !.key = key, !.branch = b, !.allowed = r.allowed,
                        !.requests_remaining = r.requests_remaining,
                        !.reset_time = r.reset_time,
                        !.retry_after = r.retry_after, !.at = now,
                        !.nth = wa.calls, !.same = wa.same, !.emax = wa.emax]
        /\ unswept' = RateStore(unswept, key, now, m, w)
        /\ UNCHANGED <<now, storeVars>>

CheckRateLimitFixed ==
    \E ip \in Ips, ep \in Endpoints, u \in RLUsers,
       mx \in 1..MaxReq, wn \in 1..MaxWin, acc \in BOOLEAN :
        check_rate_limit_fixed(ip, ep, mx, wn, u, acc)

\* the callers of the rate limiter: a user signed in from two addresses,
\* and an address without a user on two endpoints
KeyCallers ==
    {[ip |-> "ip1", endpoint |-> "login", user_id |-> "u1"],
     [ip |-> "ip2", endpoint |-> "login", user_id |-> "u1"],
     [ip |-> "ip1", endpoint |-> "login", user_id |-> NoUser],
     [ip |-> "ip1", endpoint |-> "register", user_id |-> NoUser]}

CallerKeys == {GetRateLimitKey(c.ip, c.endpoint, c.user_id) : c \in KeyCallers}

\* a call with a record of who called: the caller's ip, endpoint and user
\* id, and the ip of the call before it if that call was for the same key
check_rate_limit_keys(ip, endpoint, max_requests, window_minutes, user_id, is_accessibility_user) ==
    LET key == GetRateLimitKey(ip, endpoint, user_id)
        m == EffectiveMax(max_requests, is_accessibility_user)
        w == EffectiveWindow(window_minutes, is_accessibility_user)
        r == RateResult(request_counts, key, now, m, w)
    IN  /\ request_counts' = RateStore(request_counts, key, now, m, w)
        /\ rl_ret' = [NoRlRet EXCEPT
                        !.key = key,
                        !.branch = RateBranch(request_counts, key, now, m),
                        !.allowed = r.allowed,
                        !.reset_time = r.reset_time, !.emax = m,
                        !.ip = ip, !.endpoint = endpoint, !.user_id = user_id,
                        !.prev_ip = (IF rl_ret.key = key THEN rl_ret.ip ELSE "")]
        /\ UNCHANGED <<now, win, unswept, storeVars>>

CheckRateLimitKeys ==
    \E c \in KeyCallers, mx \in 1..MaxReqKeys, wn \in 1..MaxWinKeys :
        check_rate_limit_keys(c.ip, c.endpoint, mx, wn, c.user_id, FALSE)

\* a sweep that also removes the entries that expire at this instant
ExpiredKeysEarly(rc, t) == {k \in DOMAIN rc : t >= rc[k].expires}

\* the keys one iteration of the background sweep deletes
ExpiredKeys(rc, t) == {k \in DOMAIN rc : t > rc[k].expires}

\* a sweep that empties the map
_cleanup_everything ==
    /\ request_counts # <<>>
    /\ request_counts' = <<>>
    /\ UNCHANGED <<now, win, rl_ret, unswept, storeVars>>

_cleanup_expired_entries ==
    /\ ExpiredKeys(request_counts, now) # {}
    /\ request_counts' = [k \in DOMAIN request_counts \ ExpiredKeys(request_counts, now)
                            |-> request_counts[k]]
    /\ UNCHANGED <<now, win, rl_ret, unswept, storeVars>>

\* an iteration of the sweep in which an exception is raised while the
\* expired keys are collected: nothing is deleted, the except branch logs
\* the error and sleeps, and the loop goes on
_cleanup_fault ==
    /\ rl_ret.branch # "sweep_fault"
    /\ rl_ret' = [NoRlRet EXCEPT !.branch = "sweep_fault"]
    /\ UNCHANGED <<now, request_counts, win, unswept, storeVars>>

(***************************************************************************)
(* The users collection (UsersCollection) and the user documents.          *)
(***************************************************************************)
NoCode == [code |-> "", expires_at |-> None, attempts |-> 0, created_at |-> None]

hash_password(password) == <<"bcrypt", password>>

verify_password(plain_password, hashed_password) ==
    hashed_password = hash_password(plain_password)

UserDoc(email, password, active, verified) ==
    [email |-> email,
     password_hash |-> hash_password(password),
     is_active |-> active,
     is_verified |-> verified,
     failed_login_attempts |-> 0,
     account_locked_until |-> None,
     last_login |-> None,
     email_verification_code |-> NoCode,
     email_verified_at |-> None,
     password_reset_tokens |-> <<>>]

NoDoc == UserDoc("", "", FALSE, FALSE)

find_user_by_email(us, email) ==
    IF \E u \in DOMAIN us : us[u].email = email
    THEN CHOOSE u \in DOMAIN us : us[u].email = email
    ELSE NoUser

find_user_by_id(us, user_id) ==
    IF user_id \in DOMAIN us THEN user_id ELSE NoUser

\* $inc of security.failed_login_attempts, or $set of it to 0 with last_login
update_login_attempts(us, email, increment, t) ==
    LET u == find_user_by_email(us, email) IN
    IF u = NoUser THEN us
    ELSE IF increment
    THEN [us EXCEPT ![u].failed_login_attempts = @ + 1]
    ELSE [us EXCEPT ![u].failed_login_attempts = 0, ![u].last_login = t]

lock_account(us, email, duration_minutes, t) ==
    LET u == find_user_by_email(us, email) IN
    IF u = NoUser THEN us
    ELSE [us EXCEPT ![u].account_locked_until = t + duration_minutes]

(***************************************************************************)
(* Request handlers: program counter, locals and the value returned by the *)
(* handler a process completed last.                                       *)
(***************************************************************************)
\* how account_locked_until (until) stands at time t
LockState(until, t) ==
    IF until = None THEN "unset"
    ELSE IF until = t + LOCKOUT_DURATION_MINUTES THEN "fresh"
    ELSE IF until > t THEN "future"
    ELSE "past"

\* the fields of the user document read by a handler that it uses later
Snapshot(doc, t) ==
    [is_verified |-> doc.is_verified,
     failed_login_attempts |-> doc.failed_login_attempts,
     lock |-> LockState(doc.account_locked_until, t)]

NoLoc == [email |-> "", code |-> "", uid |-> NoUser, snap |-> Snapshot(NoDoc, 0),
          attempts |-> 0, at |-> 0, follows |-> "", token |-> "",
          password |-> "", was_previous |-> FALSE]

NoRet == [op |-> "none", result |-> "none", why |-> "", login |-> "",
          uid |-> NoUser, pw_ok |-> FALSE, snap_lock |-> "",
          snap_verified |-> FALSE, snap_failed |-> 0, did_lock |-> FALSE,
          failed_after |-> None, lock_after |-> "",
          type_ok |-> FALSE, issued |-> FALSE, expired |-> FALSE,
          user_state |-> "",
          email |-> "", code |-> "", expires_at |-> None, found |-> FALSE,
          has_code |-> FALSE, attempts |-> 0, match |-> FALSE,
          remaining |-> None, follows |-> "", prior |-> 0,
          code_after |-> "", verified_after |-> FALSE, stamp_after |-> "",
          at |-> None, was_previous |-> FALSE, fault |-> FALSE]


NoHist == [wrong_streak |-> 0, guesses |-> 0, issued |-> "", previous |-> "",
           resets |-> 0, compared |-> FALSE, successes |-> 0]

\* the successful resets since the stored reset token was issued, counted up
\* to two
ResetsAfter(h, u) ==
    IF u \notin DOMAIN h THEN h
    ELSE [h EXCEPT ![u].resets = IF @ < 2 THEN @ + 1 ELSE @]

\* consecutive wrong-password calls for a user, counted up to the threshold
StreakAfter(h, u, pw_ok) ==
    IF u = NoUser THEN h
    ELSE [h EXCEPT ![u].wrong_streak =
            IF pw_ok THEN 0
            ELSE IF @ < MAX_LOGIN_ATTEMPTS THEN @ + 1 ELSE @]

Finish(p, r) ==
    /\ pc' = [pc EXCEPT ![p] = "idle"]
    /\ loc' = [loc EXCEPT ![p] = NoLoc]
    /\ ret' = r

(***************************************************************************)
(* Tokens (AuthService.create_token_pair, AuthService.verify_token).       *)
(***************************************************************************)
create_access_token(sub, email, t) ==
    [sub |-> sub, email |-> email, type |-> "access", signed |-> TRUE,
     exp |-> t + JWT_ACCESS_TOKEN_EXPIRE_MINUTES]

create_refresh_token(sub, email, t) ==
    [sub |-> sub, email |-> email, type |-> "refresh", signed |-> TRUE,
     exp |-> t + JWT_REFRESH_TOKEN_EXPIRE_DAYS * MinutesPerDay]

create_token_pair(sub, email, t) ==
    {create_access_token(sub, email, t), create_refresh_token(sub, email, t)}

\* a token that was not signed with the server's key
ForgedToken == [sub |-> "u1", email |-> "e1", type |-> "access",
                signed |-> FALSE, exp |-> MaxTime + 1]

\* jwt.decode: the signature and the expiry are valid
jwt_decode_ok(token, t) == token.signed /\ ~(token.exp < t)

\* the lookup without the is_active test
TokenUserOkNoActive(us, user_id) == find_user_by_id(us, user_id) # NoUser

\* "not user or not user.get('is_active')" is false
TokenUserOk(us, user_id) ==
    /\ find_user_by_id(us, user_id) # NoUser
    /\ us[user_id].is_active

verify_token(token, token_type, us, t) ==
    IF ~jwt_decode_ok(token, t) THEN "none"
    ELSE IF token.type # token_type THEN "none"
    ELSE IF token.sub = "" THEN "none"
    ELSE IF ~TokenUserOk(us, token.sub) THEN "none"
    ELSE "claims"

UserState(us, u) ==
    IF u \notin DOMAIN us THEN "absent"
    ELSE IF us[u].is_active THEN "active" ELSE "inactive"

VerifyToken(p, token, token_type) ==
    /\ pc[p] = "idle"
    /\ ret' =
            [NoRet EXCEPT !.op = "verify_token",
                          !.result = verify_token(token, token_type, users, now),
                          !.uid = token.sub,
                          !.type_ok = (token.type = token_type),
                          !.issued = (token \in tokens),
                          !.expired = (now > token.exp),
                          !.user_state = UserState(users, token.sub)]
    /\ UNCHANGED <<now, rlVars, users, pc, loc, tokens, hist>>

(***************************************************************************)
(* Account removal and deactivation.                                       *)
(***************************************************************************)
\* UsersCollection.delete_user
DeleteUser(u) ==
    /\ u \in DOMAIN users
    /\ users' = [v \in DOMAIN users \ {u} |-> users[v]]
    /\ UNCHANGED <<now, rlVars, pc, loc, ret, tokens, hist>>

\* update_user_profile with {"is_active": False}
Deactivate(u) ==
    /\ u \in DOMAIN users
    /\ users[u].is_active
    /\ users' = [users EXCEPT ![u].is_active = FALSE]
    /\ UNCHANGED <<now, rlVars, pc, loc, ret, tokens, hist>>

(***************************************************************************)
(* AuthService.authenticate_user as called by login_user.                  *)
(***************************************************************************)
\* a lock test that never finds the account locked
IsLockedNever(doc, t) == FALSE

IsLocked(doc, t) ==
    doc.account_locked_until # None /\ doc.account_locked_until > t

\* a login response that tells the caller why authenticate_user failed
login_user_response_telling(result, why, is_verified) ==
    IF result = "none" THEN why
    ELSE IF ~is_verified THEN "unverified"
    ELSE "tokens"

\* the response of login_user to what authenticate_user returned (result);
\* why is the reason authenticate_user logged
login_user_response(result, why, is_verified) ==
    IF result = "none" THEN "invalid"
    ELSE IF ~is_verified THEN "unverified"
    ELSE "tokens"

\* a login that does not look at is_verified
requires_verification_never(snap) == FALSE

\* "if not user.get('is_verified', False)" on the user authenticate_user
\* returned
requires_verification(snap) == ~snap.is_verified

AuthRet(p, u, snap, okpw, result, why, did_lock, us, h) ==
    [NoRet EXCEPT !.op = "login", !.result = result, !.why = why,
                  !.login = login_user_response(result, why, ~requires_verification(snap)),
                  !.uid = u, !.pw_ok = okpw,
                  !.snap_lock = snap.lock,
                  !.snap_verified = snap.is_verified,
                  !.snap_failed = snap.failed_login_attempts,
                  !.did_lock = did_lock,
                  !.failed_after =
                      IF u \in DOMAIN us THEN us[u].failed_login_attempts ELSE None,
                  !.lock_after =
                      IF u \in DOMAIN us
                      THEN LockState(us[u].account_locked_until, now) ELSE ""]

\* a rejection that counts the attempt
reject_locked_counting(us, email, t) == update_login_attempts(us, email, TRUE, t)

\* the store after "if locked_until and locked_until > now: return None"
reject_locked(us, email, t) == us

\* find_user_by_email, the lock test and the password test
AuthStart(p, email, password) ==
    LET u == find_user_by_email(users, email)
        doc == IF u = NoUser THEN NoDoc ELSE users[u]
        snap == Snapshot(doc, now)
        okpw == u # NoUser /\ verify_password(password, doc.password_hash)
        locked == u # NoUser /\ IsLocked(doc, now)
        h == StreakAfter(hist, u, okpw)
    IN  /\ pc[p] = "idle"
        /\ (u # NoUser /\ ~okpw) => snap.failed_login_attempts < MaxFailed
        /\ IF u = NoUser THEN
               /\ Finish(p, AuthRet(p, u, snap, okpw, "none", "no_user", FALSE, users, hist))
               /\ UNCHANGED hist
           ELSE IF locked THEN
               /\ Finish(p, AuthRet(p, u, snap, okpw, "none", "locked", FALSE, users, h))
               /\ hist' = h
           ELSE
               /\ pc' = [pc EXCEPT ![p] = IF okpw THEN "auth_reset" ELSE "auth_inc"]
               /\ loc' = [loc EXCEPT ![p] = [NoLoc EXCEPT !.email = email,
                                              !.uid = u, !.snap = snap]]
               /\ UNCHANGED <<ret, hist>>
        /\ users' = IF locked THEN reject_locked(users, email, now) ELSE users
        /\ UNCHANGED <<now, rlVars, tokens>>

\* the threshold test written with > instead of >=
MustLockLate(snap) ==
    snap.failed_login_attempts + 1 > MAX_LOGIN_ATTEMPTS

\* the threshold test made after the increment
MustLock(snap) ==
    snap.failed_login_attempts + 1 >= MAX_LOGIN_ATTEMPTS

\* update_login_attempts(increment=True) and the threshold test
AuthInc(p) ==
    LET us == update_login_attempts(users, loc[p].email, TRUE, now)
        h == StreakAfter(hist, loc[p].uid, FALSE)
    IN  /\ pc[p] = "auth_inc"
        /\ users' = us
        /\ IF MustLock(loc[p].snap) THEN
               /\ pc' = [pc EXCEPT ![p] = "auth_lock"]
               /\ UNCHANGED <<loc, ret, hist>>
           ELSE
               /\ Finish(p, AuthRet(p, loc[p].uid, loc[p].snap, FALSE, "none",
                                    "wrong_password", FALSE, us, h))
               /\ hist' = h
        /\ UNCHANGED <<now, rlVars, tokens>>

\* lock_account
AuthLock(p) ==
    LET us == lock_account(users, loc[p].email, LOCKOUT_DURATION_MINUTES, now)
        h == StreakAfter(hist, loc[p].uid, FALSE)
    IN  /\ pc[p] = "auth_lock"
        /\ users' = us
        /\ Finish(p, AuthRet(p, loc[p].uid, loc[p].snap, FALSE, "none",
                             "wrong_password", TRUE, us, h))
        /\ hist' = h
        /\ UNCHANGED <<now, rlVars, tokens>>

\* update_login_attempts(increment=False); authenticate_user returns the
\* user it read, and login_user tests is_verified and creates the tokens
AuthReset(p) ==
    LET us == update_login_attempts(users, loc[p].email, FALSE, now)
        snap == loc[p].snap
        u == loc[p].uid
    IN  /\ pc[p] = "auth_reset"
        /\ users' = us
        /\ tokens' = IF ~requires_verification(snap) /\ Cardinality(tokens) < MaxTokens
                     THEN tokens \cup create_token_pair(u, loc[p].email, now)
                     ELSE tokens
        /\ Finish(p, AuthRet(p, u, snap, TRUE, "user", "ok", FALSE, us, hist))
        /\ hist' = StreakAfter(hist, u, TRUE)
        /\ UNCHANGED <<now, rlVars>>

(***************************************************************************)
(* VerificationService.create_verification_code and verify_code.           *)
(***************************************************************************)
\* wrong guesses made against the stored code, counted up to one past the limit
GuessesAfter(h, u, wrong) ==
    IF u = NoUser \/ ~wrong THEN h
    ELSE [h EXCEPT ![u].guesses = IF @ <= MAX_ATTEMPTS THEN @ + 1 ELSE @]

\* an update that leaves a code that is already stored in place
update_user_code_keep(us, user_id, verification_data) ==
    IF user_id \notin DOMAIN us THEN us
    ELSE IF us[user_id].email_verification_code # NoCode THEN us
    ELSE [us EXCEPT ![user_id].email_verification_code = verification_data]

\* update_user with {"security.email_verification_code": verification_data}
update_user_code(us, user_id, verification_data) ==
    IF user_id \notin DOMAIN us THEN us
    ELSE [us EXCEPT ![user_id].email_verification_code = verification_data]

\* one call of create_verification_code in which generate_verification_code
\* returned code
create_verification_code(user_id, code) ==
    LET verification_data == [code |-> code,
                              expires_at |-> now + CODE_EXPIRATION_MINUTES,
                              attempts |-> 0,
                              created_at |-> now]
        success == user_id \in DOMAIN users
        after == update_user_code(users, user_id, verification_data)
        stored == IF success THEN after[user_id].email_verification_code ELSE NoCode
    IN  /\ users' = after
        /\ ret' = [NoRet EXCEPT !.op = "create_verification_code",
                                !.result = IF success THEN "data" ELSE "none",
                                !.uid = user_id,
                                !.code = code,
                                !.at = now,
                                !.expires_at = verification_data.expires_at,
                                !.match = (stored = verification_data)]
        /\ hist' = IF success
                   THEN [hist EXCEPT ![user_id].guesses = 0,
                                     ![user_id].previous = hist[user_id].issued,
                                     ![user_id].issued = code,
                                     ![user_id].compared = FALSE,
                                     ![user_id].successes = 0]
                   ELSE hist
        /\ UNCHANGED <<now, rlVars, pc, loc, tokens>>

\* the rules of verify_code with expired and max_attempts exchanged
verify_rule_attempts_first(found, has_code, expired, attempts, match) ==
    IF ~found THEN "user_not_found"
    ELSE IF ~has_code THEN "no_code"
    ELSE IF attempts >= MAX_ATTEMPTS THEN "max_attempts"
    ELSE IF expired THEN "expired"
    ELSE IF ~match THEN "invalid_code"
    ELSE "success"

\* the rules of verify_code, in the order of its tests
verify_rule(found, has_code, expired, attempts, match) ==
    IF ~found THEN "user_not_found"
    ELSE IF ~has_code THEN "no_code"
    ELSE IF expired THEN "expired"
    ELSE IF attempts >= MAX_ATTEMPTS THEN "max_attempts"
    ELSE IF ~match THEN "invalid_code"
    ELSE "success"

\* remaining attempts computed from the count before the increment
remaining_attempts_before(attempts) == MAX_ATTEMPTS - attempts

remaining_attempts(attempts) == MAX_ATTEMPTS - (attempts + 1)

\* update_user with {"security.email_verification_code.attempts": attempts + 1}:
\* nothing is written if the user is gone or the code field holds null
update_user_attempts(us, user_id, attempts) ==
    IF user_id \notin DOMAIN us THEN us
    ELSE IF us[user_id].email_verification_code = NoCode THEN us
    ELSE [us EXCEPT ![user_id].email_verification_code.attempts = attempts + 1]

\* the update of a correct code that leaves the code stored
update_user_verified_keep_code(us, user_id, t) ==
    IF user_id \notin DOMAIN us THEN us
    ELSE [us EXCEPT ![user_id].is_verified = TRUE,
                    ![user_id].email_verified_at = t]

\* update_user with is_verified, email_verification_code = None and
\* email_verified_at
update_user_verified(us, user_id, t) ==
    IF user_id \notin DOMAIN us THEN us
    ELSE [us EXCEPT ![user_id].is_verified = TRUE,
                    ![user_id].email_verification_code = NoCode,
                    ![user_id].email_verified_at = t]

\* how the operation that completed last relates to a verify_code(email, code)
\* that starts now for user u
Follows(r, u, email, code, t) ==
    IF r.op = "create_verification_code" /\ r.result = "data" /\ r.uid = u
       /\ r.code = code
    THEN (IF t <= r.expires_at THEN "issue" ELSE "issue_expired")
    ELSE IF r.op = "verify_code" /\ r.result = "success" /\ r.email = email
            /\ r.code = code
    THEN "success"
    ELSE ""

\* code is the code issued before the latest one, and not the latest one
WasPrevious(h, u, code) ==
    u # NoUser /\ code = h[u].previous /\ code # h[u].issued

VerifyRet(u, email, code, result, found, has_code, expired, attempts, match, remaining, follows, prev, at, us, h) ==
    [NoRet EXCEPT !.op = "verify_code", !.result = result, !.uid = u,
                  !.email = email, !.code = code, !.found = found,
                  !.has_code = has_code, !.expired = expired,
                  !.attempts = attempts, !.match = match,
                  !.remaining = remaining, !.follows = follows,
                  !.prior = IF u = NoUser THEN 0 ELSE h[u].guesses,
                  !.was_previous = prev,
                  !.code_after =
                      IF u \notin DOMAIN us THEN ""
                      ELSE IF us[u].email_verification_code = NoCode THEN "none"
                      ELSE "stored",
                  !.verified_after = (u \in DOMAIN us /\ us[u].is_verified),
                  !.stamp_after =
                      IF u \notin DOMAIN us THEN ""
                      ELSE IF us[u].email_verified_at = None THEN "unset"
                      ELSE IF us[u].email_verified_at = at THEN "now"
                      ELSE "other"]

\* whether a wrong guess has been compared with the stored code since it was
\* issued
ComparedAfter(h, u, wrong) ==
    IF u \notin DOMAIN h \/ ~wrong THEN h ELSE [h EXCEPT ![u].compared = TRUE]

\* find_user_by_email and the tests on what was read
VerifyStart(p, email, code) ==
    LET u == find_user_by_email(users, email)
        doc == IF u = NoUser THEN NoDoc ELSE users[u]
        verification_data == doc.email_verification_code
        found == u # NoUser
        has_code == found /\ verification_data # NoCode
        expired == has_code /\ now > verification_data.expires_at
        attempts == verification_data.attempts
        match == has_code /\ code = verification_data.code
        rule == verify_rule(found, has_code, expired, attempts, match)
        follows == Follows(ret, u, email, code, now)
        wrong == has_code /\ ~expired /\ ~match
    IN  /\ pc[p] = "idle"
        /\ IF rule \in {"invalid_code", "success"} THEN
               /\ pc' = [pc EXCEPT ![p] = IF rule = "success" THEN "vc_ok" ELSE "vc_inc"]
               /\ loc' = [loc EXCEPT ![p] = [NoLoc EXCEPT !.email = email,
                                              !.code = code, !.uid = u,
                                              !.attempts = attempts,
                                              !.at = now,
                                              !.follows = follows,
                                              !.was_previous =
                                                  WasPrevious(hist, u, code)]]
               /\ hist' = ComparedAfter(hist, u, rule = "invalid_code")
               /\ UNCHANGED ret
           ELSE
               /\ Finish(p, VerifyRet(u, email, code, rule, found, has_code,
                                      expired, attempts, match, None, follows,
                                      WasPrevious(hist, u, code), now, users,
                                      hist))
               /\ hist' = GuessesAfter(hist, u, wrong)
        /\ UNCHANGED <<now, rlVars, users, tokens>>

\* the write of attempts + 1 and the invalid_code answer
VerifyInc(p) ==
    LET us == update_user_attempts(users, loc[p].uid, loc[p].attempts) IN
    /\ pc[p] = "vc_inc"
    /\ users' = us
    /\ Finish(p, VerifyRet(loc[p].uid, loc[p].email, loc[p].code,
                           "invalid_code", TRUE, TRUE, FALSE, loc[p].attempts,
                           FALSE, remaining_attempts(loc[p].attempts),
                           loc[p].follows, loc[p].was_previous, loc[p].at, us,
                           hist))
    /\ hist' = GuessesAfter(hist, loc[p].uid, TRUE)
    /\ UNCHANGED <<now, rlVars, tokens>>

\* the write that verifies the account and the success answer
VerifyOk(p) ==
    LET us == update_user_verified(users, loc[p].uid, loc[p].at) IN
    /\ pc[p] = "vc_ok"
    /\ users' = us
    /\ Finish(p, VerifyRet(loc[p].uid, loc[p].email, loc[p].code,
                           "success", TRUE, TRUE, FALSE, loc[p].attempts,
                           TRUE, None, loc[p].follows, loc[p].was_previous,
                           loc[p].at, us, hist))
    /\ hist' = IF loc[p].uid \in DOMAIN hist
               THEN [hist EXCEPT ![loc[p].uid].guesses = 0,
                                 ![loc[p].uid].issued = "",
                                 ![loc[p].uid].previous = "",
                                 ![loc[p].uid].compared = FALSE,
                                 ![loc[p].uid].successes =
                                     IF @ < 2 THEN @ + 1 ELSE @]
               ELSE hist
    /\ UNCHANGED <<now, rlVars, tokens>>

(***************************************************************************)
(* verify_code when a store operation fails.  UsersCollection catches the  *)
(* exception itself: find_user_by_email then returns None and update_user  *)
(* returns False, and verify_code does not test what update_user returns.  *)
(***************************************************************************)
\* the lookup fails: verify_code sees no user
VerifyStartFault(p, email, code) ==
    /\ pc[p] = "idle"
    /\ Finish(p, [VerifyRet(NoUser, email, code,
                            verify_rule(FALSE, FALSE, FALSE, 0, FALSE),
                            FALSE, FALSE, FALSE, 0, FALSE, None, "", FALSE,
                            now, users, hist) EXCEPT !.fault = TRUE])
    /\ UNCHANGED <<now, rlVars, users, tokens, hist>>

\* the update of attempts fails: nothing is written
VerifyIncFault(p) ==
    /\ pc[p] = "vc_inc"
    /\ Finish(p, [VerifyRet(loc[p].uid, loc[p].email, loc[p].code,
                            "invalid_code", TRUE, TRUE, FALSE, loc[p].attempts,
                            FALSE, remaining_attempts(loc[p].attempts),
                            loc[p].follows, loc[p].was_previous, loc[p].at,
                            users, hist) EXCEPT !.fault = TRUE])
    /\ hist' = GuessesAfter(hist, loc[p].uid, TRUE)
    /\ UNCHANGED <<now, rlVars, users, tokens>>

\* the update that verifies the account fails: nothing is written
VerifyOkFault(p) ==
    /\ pc[p] = "vc_ok"
    /\ Finish(p, [VerifyRet(loc[p].uid, loc[p].email, loc[p].code,
                            "success", TRUE, TRUE, FALSE, loc[p].attempts,
                            TRUE, None, loc[p].follows, loc[p].was_previous,
                            loc[p].at, users, hist) EXCEPT !.fault = TRUE])
    /\ UNCHANGED <<now, rlVars, users, tokens, hist>>

(***************************************************************************)
(* Password reset (routes/auth.py forgot_password, reset_password).        *)
(***************************************************************************)
\* update_user with {"security.password_reset_tokens": [reset_data_dict]}
update_user_reset_tokens(us, user_id, token, t) ==
    IF user_id \notin DOMAIN us THEN us
    ELSE [us EXCEPT ![user_id].password_reset_tokens =
            <<[token |-> token, expires |-> t + RESET_TOKEN_EXPIRE_MINUTES,
               used |-> FALSE]>>]

\* forgot_password: the lookup; the token and its expiry are made here
ForgotStart(p, email, token) ==
    LET u == find_user_by_email(users, email) IN
    /\ pc[p] = "idle"
    /\ IF u # NoUser /\ users[u].is_active THEN
           /\ pc' = [pc EXCEPT ![p] = "fp_write"]
           /\ loc' = [loc EXCEPT ![p] = [NoLoc EXCEPT !.email = email, !.uid = u,
                                          !.token = token, !.at = now]]
           /\ UNCHANGED ret
       ELSE
           Finish(p, [NoRet EXCEPT !.op = "forgot_password", !.result = "ok",
                                   !.email = email, !.uid = u])
    /\ UNCHANGED <<now, rlVars, users, tokens, hist>>

\* forgot_password: the update that stores the one new token
ForgotWrite(p) ==
    /\ pc[p] = "fp_write"
    /\ users' = update_user_reset_tokens(users, loc[p].uid, loc[p].token, loc[p].at)
    /\ Finish(p, [NoRet EXCEPT !.op = "forgot_password", !.result = "ok",
                               !.email = loc[p].email, !.uid = loc[p].uid])
    /\ hist' = IF loc[p].uid \in DOMAIN hist
               THEN [hist EXCEPT ![loc[p].uid].resets = 0] ELSE hist
    /\ UNCHANGED <<now, rlVars, tokens>>

\* the find_one with $elemMatch {token, expires > now, used = false}
find_user_by_reset_token(us, token, t) ==
    LET ok(u) == \E i \in DOMAIN us[u].password_reset_tokens :
                    /\ us[u].password_reset_tokens[i].token = token
                    /\ us[u].password_reset_tokens[i].expires > t
                    /\ ~us[u].password_reset_tokens[i].used
    IN  IF \E u \in DOMAIN us : ok(u)
        THEN CHOOSE u \in DOMAIN us : ok(u) ELSE NoUser

\* update_user with the new hash, no tokens, failed_login_attempts = 0 and
\* account_locked_until = None
update_user_new_password(us, user_id, password) ==
    IF user_id \notin DOMAIN us THEN us
    ELSE [us EXCEPT ![user_id].password_hash = hash_password(password),
                    ![user_id].password_reset_tokens = <<>>,
                    ![user_id].failed_login_attempts = 0,
                    ![user_id].account_locked_until = None]

ResetRet(u, token, result, snap, us) ==
    [NoRet EXCEPT !.op = "reset_password", !.result = result, !.uid = u,
                  !.code = token, !.snap_lock = snap.lock,
                  !.snap_failed = snap.failed_login_attempts,
                  !.failed_after =
                      IF u \in DOMAIN us THEN us[u].failed_login_attempts ELSE None,
                  !.lock_after =
                      IF u \in DOMAIN us
                      THEN LockState(us[u].account_locked_until, now) ELSE ""]

\* reset_password: the lookup by token
ResetStart(p, token, new_password) ==
    LET u == find_user_by_reset_token(users, token, now)
        doc == IF u = NoUser THEN NoDoc ELSE users[u]
    IN  /\ pc[p] = "idle"
        /\ IF u = NoUser THEN
               Finish(p, ResetRet(u, token, "invalid", Snapshot(doc, now), users))
           ELSE
               /\ pc' = [pc EXCEPT ![p] = "rp_write"]
               /\ loc' = [loc EXCEPT ![p] = [NoLoc EXCEPT !.uid = u, !.token = token,
                                              !.password = new_password,
                                              !.snap = Snapshot(doc, now)]]
               /\ UNCHANGED ret
        /\ UNCHANGED <<now, rlVars, users, tokens, hist>>

\* reset_password: the update
ResetWrite(p) ==
    LET us == update_user_new_password(users, loc[p].uid, loc[p].password) IN
    /\ pc[p] = "rp_write"
    /\ users' = us
    /\ Finish(p, ResetRet(loc[p].uid, loc[p].token, "ok", loc[p].snap, us))
    /\ hist' = IF loc[p].uid \in DOMAIN hist
               THEN [ResetsAfter(hist, loc[p].uid) EXCEPT ![loc[p].uid].wrong_streak = 0]
               ELSE hist
    /\ UNCHANGED <<now, rlVars, tokens>>

(***************************************************************************)
(* Profile update (routes/users.py update_user_profile,                    *)
(* UserService.update_user_profile): the request body is passed to $set    *)
(* after password_hash, _id, created_at and email are removed from it.     *)
(***************************************************************************)
forbidden_fields == {"password_hash", "_id", "created_at", "email"}

\* request bodies of one field each (for is_verified, 0 stands for false)
ProfileBodies ==
    {[field |-> "profile.phone", value |-> None],
     [field |-> "is_verified", value |-> 0],
     [field |-> "password_hash", value |-> None],
     [field |-> "security.account_locked_until", value |-> None],
     [field |-> "security.failed_login_attempts", value |-> 0],
     [field |-> "security.email_verification_code.attempts", value |-> 0],
     [field |-> "security.email_verification_code.attempts",
      value |-> MAX_ATTEMPTS + 1]}

\* update_user: $set of one field of the user document
update_user_field(us, user_id, field, value) ==
    IF user_id \notin DOMAIN us THEN us
    ELSE IF field = "security.account_locked_until"
    THEN [us EXCEPT ![user_id].account_locked_until = value]
    ELSE IF field = "is_verified"
    THEN [us EXCEPT ![user_id].is_verified = (value # 0)]
    ELSE IF field = "security.failed_login_attempts"
    THEN [us EXCEPT ![user_id].failed_login_attempts = value]
    ELSE IF field = "security.email_verification_code.attempts"
    THEN (IF us[user_id].email_verification_code = NoCode THEN us
          ELSE [us EXCEPT ![user_id].email_verification_code.attempts = value])
    ELSE us

\* PUT /profile by the holder of an access token
update_user_profile(token, body) ==
    LET allowed == verify_token(token, "access", users, now) = "claims"
        u == token.sub
        us == IF allowed /\ body.field \notin forbidden_fields
              THEN update_user_field(users, u, body.field, body.value)
              ELSE users
    IN  /\ users' = us
        /\ ret' = [NoRet EXCEPT !.op = "update_user_profile",
                                !.result = IF allowed THEN "ok" ELSE "unauthorized",
                                !.uid = u, !.why = body.field]
        /\ UNCHANGED <<now, rlVars, pc, loc, tokens, hist>>

(***************************************************************************)
(* The clock.                                                              *)
(***************************************************************************)
Advance(step, horizon) ==
    /\ \E k \in 1..horizon : now + k * step <= horizon /\ now' = now + k * step
    /\ UNCHANGED <<rlVars, storeVars>>

Tick == Advance(TimeStep, MaxTime)

TickRL == Advance(1, MaxTimeRL)

TickAcc == Advance(1, MaxTimeAcc)

TickKeys == Advance(1, MaxTimeKeys)

(***************************************************************************)
(* Initial state.                                                          *)
(***************************************************************************)
InitRL ==
    /\ request_counts = <<>>
    /\ win = [k \in AllKeys |-> NoWin]
    /\ rl_ret = NoRlRet
    /\ unswept = <<>>

InitStore ==
    /\ users = <<>>
    /\ pc = [p \in Procs |-> "idle"]
    /\ loc = [p \in Procs |-> NoLoc]
    /\ ret = NoRet
    /\ tokens = {}
    /\ hist = [u \in UserIds |-> NoHist]

\* one registered account; its flags are those of a stored user document
InitAccounts ==
    /\ \E verified \in BOOLEAN :
          users = [u \in UserIds |-> UserDoc("e1", "pw1", TRUE, verified)]
    /\ pc = [p \in Procs |-> "idle"]
    /\ loc = [p \in Procs |-> NoLoc]
    /\ ret = NoRet
    /\ tokens = {}
    /\ hist = [u \in UserIds |-> NoHist]

InitAuth ==
    /\ now = 0
    /\ InitRL
    /\ InitAccounts

\* a verified account right after its first login: last_login is set and
\* the token pair of that login is held by the client
InitSession ==
    /\ now = 0
    /\ InitRL
    /\ users = [u \in UserIds |->
                    [UserDoc("e1", "pw1", TRUE, TRUE) EXCEPT !.last_login = 0]]
    /\ pc = [p \in Procs |-> "idle"]
    /\ loc = [p \in Procs |-> NoLoc]
    /\ ret = NoRet
    /\ tokens = create_token_pair("u1", "e1", 0)
    /\ hist = [u \in UserIds |-> NoHist]

Init ==
    /\ now = 0
    /\ InitRL
    /\ InitStore

NextRL ==
    \/ CheckRateLimit
    \/ _cleanup_expired_entries
    \/ TickRL

SpecRL == Init /\ [][NextRL]_vars

\* the rate limiter with calls in which an internal fault occurs
NextRLFault ==
    \/ CheckRateLimit
    \/ CheckRateLimitFault
    \/ _cleanup_expired_entries
    \/ TickRL

SpecRLFault == Init /\ [][NextRLFault]_vars

\* the rate limiter with every request made by a caller without
\* accessibility needs and by one with them
AccKeys == {GetRateLimitKey(ip, ep, u) : ip \in Ips, ep \in Endpoints, u \in UserIds \cup {NoUser}}

InitAcc ==
    /\ now = 0
    /\ request_counts = <<>>
    /\ win = [k \in AccKeys |-> NoWin]
    /\ rl_ret = NoRlRet
    /\ unswept = <<>>
    /\ InitStore

NextAcc ==
    \/ CheckRateLimitBoth
    \/ _cleanup_expired_entries
    \/ TickAcc

SpecAcc == InitAcc /\ [][NextAcc]_vars

\* the rate limiter with one quota per key
NextWindow ==
    \/ CheckRateLimitFixed
    \/ _cleanup_expired_entries
    \/ TickRL

SpecWindow == Init /\ [][NextWindow]_vars

\* the rate limiter and its sweep, which start_background_tasks starts once
\* and whose loop runs an iteration every cleanup_interval seconds for as
\* long as the process lives
NextSweep ==
    \/ CheckRateLimitBoth
    \/ _cleanup_expired_entries
    \/ _cleanup_fault
    \/ TickAcc

SpecSweep == InitAcc /\ [][NextSweep]_vars /\ WF_vars(_cleanup_expired_entries)

\* the rate limiter called for several identities and endpoints
InitKeys ==
    /\ now = 0
    /\ request_counts = <<>>
    /\ win = [k \in CallerKeys |-> NoWin]
    /\ rl_ret = NoRlRet
    /\ unswept = <<>>
    /\ InitStore

NextKeys ==
    \/ CheckRateLimitKeys
    \/ _cleanup_expired_entries
    \/ TickKeys

SpecKeys == InitKeys /\ [][NextKeys]_vars

(***************************************************************************)
(* Logins made one after the other.                                        *)
(***************************************************************************)
\* no handler is between two of its awaits
Quiet == \A p \in Procs : pc[p] = "idle"

Login(p) ==
    \/ \E email \in Emails, password \in Passwords : AuthStart(p, email, password)
    \/ AuthInc(p)
    \/ AuthLock(p)
    \/ AuthReset(p)

TokenTypes == {"access", "refresh"}

NextAuthSeq ==
    \/ Login("p1")
    \/ \E token \in tokens \cup {ForgedToken}, ty \in TokenTypes :
            VerifyToken("p1", token, ty)
    \/ Quiet /\ \E u \in UserIds : DeleteUser(u)
    \/ Quiet /\ \E u \in UserIds : Deactivate(u)
    \/ Tick

SpecAuthSeq == InitAuth /\ [][NextAuthSeq]_vars

(***************************************************************************)
(* Concurrent logins, token verifications and account changes.             *)
(***************************************************************************)
\* the clock in steps of one lockout period
TickLock == Advance(LOCKOUT_DURATION_MINUTES, MaxTime)

NextAuth ==
    \/ \E p \in Procs : Login(p)
    \/ TickLock

SpecAuth == InitAuth /\ [][NextAuth]_vars

(***************************************************************************)
(* Verification codes issued and submitted one call after the other.       *)
(***************************************************************************)
Verify(p) ==
    \/ \E email \in Emails, code \in Codes : VerifyStart(p, email, code)
    \/ VerifyInc(p)
    \/ VerifyOk(p)

Issue ==
    /\ Quiet
    /\ \E u \in UserIds, code \in Codes : create_verification_code(u, code)

NextVerifySeq ==
    \/ Verify("p1")
    \/ Issue
    \/ Tick

SpecVerifySeq == InitAuth /\ [][NextVerifySeq]_vars

(***************************************************************************)
(* Concurrent verify_code calls against one issued code.                   *)
(***************************************************************************)
\* the clock in steps of one code lifetime
TickCode == Advance(CODE_EXPIRATION_MINUTES, MaxTime)

NextVerify ==
    \/ \E p \in Procs : Verify(p)
    \/ Issue
    \/ TickCode

SpecVerify == InitAuth /\ [][NextVerify]_vars

(***************************************************************************)
(* Login, password reset and profile updates, one request at a time.       *)
(***************************************************************************)
Forgot(p) ==
    \/ \E email \in Emails, token \in ResetTokens : ForgotStart(p, email, token)
    \/ ForgotWrite(p)

Reset(p) ==
    \/ \E token \in ResetTokens \cup {BadResetToken}, password \in Passwords :
            ResetStart(p, token, password)
    \/ ResetWrite(p)

Profile ==
    /\ Quiet
    /\ \E token \in tokens, body \in ProfileBodies : update_user_profile(token, body)

NextLock ==
    \/ Login("p1")
    \/ Forgot("p1")
    \/ Reset("p1")
    \/ Profile
    \/ TickLock

SpecLock == InitAuth /\ [][NextLock]_vars

\* concurrent forgot_password and reset_password requests
NextReset ==
    \/ \E p \in Procs : Forgot(p)
    \/ \E p \in Procs : Reset(p)
    \/ TickLock

SpecReset == InitAuth /\ [][NextReset]_vars

\* a code re-issued while a verify_code call is between its lookup and its
\* update
Reissue == \E u \in UserIds, code \in Codes : create_verification_code(u, code)

NextReissue ==
    \/ Verify("p1")
    \/ Reissue
    \/ TickCode

SpecReissue == InitAuth /\ [][NextReissue]_vars

(***************************************************************************)
(* Verification codes and profile updates of a logged-in account holder,   *)
(* one request at a time.                                                  *)
(***************************************************************************)
NextCode ==
    \/ Verify("p1")
    \/ Issue
    \/ Profile
    \/ TickCode

SpecCode == InitSession /\ [][NextCode]_vars

(***************************************************************************)
(* verify_code calls, one after the other, with store operations that can  *)
(* fail.                                                                   *)
(***************************************************************************)
VerifyFault(p) ==
    \/ \E email \in Emails, code \in Codes : VerifyStartFault(p, email, code)
    \/ VerifyIncFault(p)
    \/ VerifyOkFault(p)

NextVerifyFault ==
    \/ Verify("p1")
    \/ VerifyFault("p1")
    \/ Issue
    \/ TickCode

SpecVerifyFault == InitAuth /\ [][NextVerifyFault]_vars

(***************************************************************************)
(* Claims about the rate limiter.                                          *)
(***************************************************************************)
\* the last check_rate_limit call was the n-th call for its key since the
\* key's entry was created, all of them with one effective quota and window
RlSeries == rl_ret.branch # "none" /\ rl_ret.same

\* C1 (as stated): of the calls made for a key within one window with one
\* quota, the first M (M the effective quota) return allowed=true and the
\* (M+1)-th returns allowed=false with retry_after > 0.
C1_AsStated ==
    RlSeries =>
        /\ rl_ret.nth <= rl_ret.emax => rl_ret.allowed
        /\ rl_ret.nth = rl_ret.emax + 1 =>
                ~rl_ret.allowed /\ rl_ret.retry_after > 0

\* C1 (amended): the first M calls return allowed=true and the (M+1)-th
\* returns allowed=false with retry_after = reset_time - now >= 0, which is
\* > 0 exactly when the call is made before the entry's reset_time.
C1_QuotaThenDeny ==
    RlSeries =>
        /\ rl_ret.nth <= rl_ret.emax => rl_ret.allowed
        /\ rl_ret.nth = rl_ret.emax + 1 =>
                /\ ~rl_ret.allowed
                /\ rl_ret.retry_after = rl_ret.reset_time - rl_ret.at
                /\ rl_ret.retry_after >= 0
                /\ (rl_ret.retry_after > 0 <=> rl_ret.at < rl_ret.reset_time)

\* an accessibility caller with base quota 2 (effective quota 3) was allowed
\* three times and denied the fourth time, before the window's end
C1_Witness ==
    /\ RlSeries
    /\ rl_ret.emax = EffectiveMax(2, TRUE)
    /\ rl_ret.nth = rl_ret.emax + 1
    /\ ~rl_ret.allowed
    /\ rl_ret.retry_after > 0
    /\ win[rl_ret.key].allowed = rl_ret.emax

\* C6: whatever the order in which the calls for a key run, the stored count
\* is the number of calls that returned allowed=true since the entry was
\* created, and with one effective quota at most that many were allowed.
C6_NoLostUpdate ==
    \A k \in DOMAIN request_counts :
        /\ request_counts[k].count = win[k].allowed
        /\ win[k].same => win[k].allowed <= win[k].emax

\* several calls for one key arrived at the same instant: more than one was
\* counted and at least one was denied
C6_Witness ==
    \E k \in DOMAIN request_counts :
        /\ request_counts[k].first_request = now
        /\ request_counts[k].count >= 2
        /\ win[k].same
        /\ win[k].calls > win[k].allowed

\* the step is a check_rate_limit call for key k that raised no fault
IsRateCall(k) ==
    /\ rl_ret' # rl_ret
    /\ rl_ret'.key = k
    /\ rl_ret'.branch # "fault"

\* C11: a check_rate_limit call that finds an entry whose expires has passed
\* (now > expires) returns allowed=true with requests_remaining = effective
\* max - 1 and leaves for the key a fresh entry with count = 1 and
\* expires = now + effective window.
C11_ResetAfterExpiry ==
    [][\A k \in DOMAIN request_counts :
          (now > request_counts[k].expires /\ IsRateCall(k)) =>
              /\ rl_ret'.allowed
              /\ rl_ret'.requests_remaining = win'[k].emax - 1
              /\ k \in DOMAIN request_counts'
              /\ request_counts'[k].count = 1
              /\ request_counts'[k].expires = now + win'[k].ewin]_vars

\* a key whose last call was denied is allowed again, with a fresh window,
\* by a call made after its reset_time
C11_Witness ==
    /\ rl_ret.branch = "reset"
    /\ rl_ret.was_denied
    /\ rl_ret.allowed
    /\ rl_ret.key \in DOMAIN request_counts
    /\ request_counts[rl_ret.key].count = 1
    /\ request_counts[rl_ret.key].first_request = rl_ret.at

\* C20: every check_rate_limit call returns the allowed, requests_remaining
\* and reset_time it would return if no sweep iteration had ever run
\* (unswept is the map the same calls build without the sweep).
C20_SweepInvisible ==
    rl_ret.branch # "none" =>
        Outcome(rl_ret) = rl_ret.unswept

\* a call found that the sweep had removed its key's entry and answered as
\* it would have answered with the expired entry still in the map
C20_Witness ==
    /\ rl_ret.branch = "new"
    /\ rl_ret.swept
    /\ Outcome(rl_ret) = rl_ret.unswept
    /\ rl_ret.key \in DOMAIN unswept
    /\ rl_ret.key \in DOMAIN request_counts
    /\ unswept[rl_ret.key] = request_counts[rl_ret.key]

\* C16: a check_rate_limit call in which an internal fault occurs returns
\* allowed=true, also for a key whose quota is used up.
C16_FailOpen ==
    rl_ret.branch = "fault" => rl_ret.allowed

\* a faulting call that would have been denied without the fault (its key's
\* entry is live and at the quota) was allowed
C16_Witness ==
    /\ rl_ret.branch = "fault"
    /\ rl_ret.would_deny
    /\ rl_ret.allowed

(***************************************************************************)
(* Claims about authentication.  ret is the value returned by the handler  *)
(* that completed last, with what it read and what it left in the store.   *)
(***************************************************************************)
LockedStates == {"fresh", "future"}

\* C2: with MAX_LOGIN_ATTEMPTS = 5, once 5 consecutive wrong-password calls
\* for an account have completed the account is locked into the future; a
\* call that finds the lock in the future returns None whatever the
\* password; a correct-password call that finds no lock in the future
\* returns the user and leaves failed_login_attempts at 0.
C2_LockoutCycle ==
    (ret.op = "login" /\ ret.uid # NoUser) =>
        /\ (~ret.pw_ok /\ hist[ret.uid].wrong_streak >= MAX_LOGIN_ATTEMPTS)
                => ret.lock_after \in LockedStates
        /\ ret.snap_lock \in LockedStates => ret.result = "none"
        /\ (ret.pw_ok /\ ret.snap_lock \notin LockedStates) =>
                ret.result = "user" /\ ret.failed_after = 0

\* a correct-password login succeeded on an account whose lock, set after
\* five failures, had run out, and the counter is back at 0
C2_Witness ==
    /\ ret.op = "login"
    /\ ret.result = "user"
    /\ ret.snap_lock = "past"
    /\ ret.snap_failed >= MAX_LOGIN_ATTEMPTS
    /\ ret.failed_after = 0

\* C8: a failing authenticate_user call never completes leaving
\* failed_login_attempts >= MAX_LOGIN_ATTEMPTS without having itself set
\* account_locked_until = now + LOCKOUT_DURATION.
C8_CountThenLock ==
    (ret.op = "login" /\ ret.why = "wrong_password"
        /\ ret.failed_after >= MAX_LOGIN_ATTEMPTS)
    => (ret.did_lock /\ ret.lock_after = "fresh")

\* C9 (as stated): authenticate_user returns a user only if the account is
\* not locked and is verified.
C9_AsStated ==
    (ret.op = "login" /\ ret.result = "user") =>
        ret.snap_lock \notin LockedStates /\ ret.snap_verified

\* C9 (amended): authenticate_user returns a user only if the record it read
\* was not locked (and the password matched); the verified axis is tested by
\* login_user, which issues tokens only for a returned user whose record has
\* is_verified = true.
C9_LockThenVerified ==
    ret.op = "login" =>
        /\ ret.result = "user" => (ret.snap_lock \notin LockedStates /\ ret.pw_ok)
        /\ ret.login = "tokens" => (ret.result = "user" /\ ret.snap_verified)

\* authenticate_user returned an unverified account and login_user refused
\* to issue tokens for it
C9_Witness ==
    /\ ret.op = "login"
    /\ ret.result = "user"
    /\ ~ret.snap_verified
    /\ ret.login = "unverified"

\* C10: verify_token returns claims only if the token's type is the expected
\* one and, at the time of the call, its subject is a stored user with
\* is_active = true; so a call made once the user is deactivated or deleted
\* is rejected.
C10_TokenNeedsActiveUser ==
    (ret.op = "verify_token" /\ ret.result = "claims") =>
        /\ ret.type_ok
        /\ ret.user_state = "active"
        /\ ~ret.expired

\* a token of the right type, issued by a login and not expired, is
\* rejected by a call made after the user was deactivated or deleted
C10_Witness ==
    /\ ret.op = "verify_token"
    /\ ret.result = "none"
    /\ ret.type_ok /\ ret.issued /\ ~ret.expired
    /\ ret.user_state # "active"

(***************************************************************************)
(* Claims about verification codes.                                        *)
(***************************************************************************)
\* C3: a verify_code call that directly follows create_verification_code for
\* the same user, submits exactly the issued code and is made before expiry
\* returns success and leaves is_verified = true, email_verified_at = the
\* time of the call and no stored code; a verify_code call that directly
\* follows that success with the same code returns no_code.
C3_IssueVerifyConsume ==
    ret.op = "verify_code" =>
        /\ ret.follows = "issue" =>
                /\ ret.result = "success"
                /\ ret.verified_after
                /\ ret.stamp_after = "now"
                /\ ret.code_after = "none"
        /\ ret.follows = "success" => ret.result = "no_code"

\* the issued code was accepted and then submitted again, and refused
C3_Witness ==
    /\ ret.op = "verify_code"
    /\ ret.follows = "success"
    /\ ret.result = "no_code"
    /\ ret.uid \in DOMAIN users
    /\ users[ret.uid].is_verified
    /\ users[ret.uid].email_verified_at # None

\* C4: verify_code answers with the first rule that applies, in the order
\* user_not_found, no_code, expired, max_attempts, invalid_code, success;
\* so success is returned only for a code read with now <= expires_at and
\* attempts < MAX_ATTEMPTS.
C4_RuleOrder ==
    ret.op = "verify_code" =>
        /\ ret.result =
              (IF ~ret.found THEN "user_not_found"
               ELSE IF ~ret.has_code THEN "no_code"
               ELSE IF ret.expired THEN "expired"
               ELSE IF ret.attempts >= 5 THEN "max_attempts"
               ELSE IF ~ret.match THEN "invalid_code"
               ELSE "success")
        /\ ret.result = "success" =>
              ret.has_code /\ ~ret.expired /\ ret.attempts < MAX_ATTEMPTS
        /\ (ret.match /\ (ret.expired \/ ret.attempts >= MAX_ATTEMPTS)) =>
              ret.result # "success"

\* the correct code was submitted after expiry with the attempts exhausted,
\* and the answer was expired
C4_Witness ==
    /\ ret.op = "verify_code"
    /\ ret.match
    /\ ret.expired
    /\ ret.attempts >= MAX_ATTEMPTS
    /\ ret.result = "expired"

\* C5: while the issued code is unexpired, the k-th wrong guess since it was
\* issued (k = 1..5) returns invalid_code with remaining_attempts = 5 - k,
\* and every call made after 5 wrong guesses returns max_attempts, the
\* correct code included, until a new code is issued.
C5_AttemptsBoundary ==
    (ret.op = "verify_code" /\ ret.has_code /\ ~ret.expired) =>
        /\ (~ret.match /\ ret.prior < 5) =>
                /\ ret.result = "invalid_code"
                /\ ret.remaining = 5 - (ret.prior + 1)
        /\ ret.prior >= 5 => ret.result = "max_attempts"

\* the correct code was refused with max_attempts after five wrong guesses
C5_Witness ==
    /\ ret.op = "verify_code"
    /\ ret.result = "max_attempts"
    /\ ret.match
    /\ ret.prior = 5
    /\ ~ret.expired

\* C7: once the verify_code calls against the stored code have completed,
\* its attempts field counts every wrong guess made against it (up to
\* MAX_ATTEMPTS, after which guesses are refused without being counted).
C7_BothCounted ==
    \A u \in DOMAIN users :
        (Quiet /\ users[u].email_verification_code # NoCode) =>
            users[u].email_verification_code.attempts =
                (IF hist[u].guesses < MAX_ATTEMPTS
                 THEN hist[u].guesses ELSE MAX_ATTEMPTS)

\* C18: for an email with no account, for an existing account with a wrong
\* password and for a locked account, authenticate_user returns None and
\* login_user answers with one and the same response.
FailedLogins == {"no_user", "wrong_password", "locked"}

C18_SameFailureResponse ==
    (ret.op = "login" /\ ret.why \in FailedLogins) =>
        ret.result = "none" /\ ret.login = "invalid"

\* a login for an email without account was refused with the response that
\* a wrong password gets, while the one account of the store is locked
C18_Witness ==
    /\ ret.op = "login"
    /\ ret.why = "no_user"
    /\ ret.login = "invalid"
    /\ \E u \in DOMAIN users : IsLocked(users[u], now)

(***************************************************************************)
(* Claims about the lock.                                                  *)
(***************************************************************************)
LockedNow(us, u, t) == u \in DOMAIN us /\ IsLocked(us[u], t)

\* the step is the update of a successful reset_password for u
IsResetWrite(u) ==
    \E p \in Procs : pc[p] = "rp_write" /\ pc'[p] = "idle" /\ loc[p].uid = u

\* C15: a call of authenticate_user that reads account_locked_until in the
\* future fails whatever failed_login_attempts is; and a lock that is in the
\* future is never cleared or moved to an earlier time by a step, except by
\* the update of a successful password reset, which leaves it null and
\* failed_login_attempts at 0.
C15_LockFrame ==
    /\ [](ret.op = "login" /\ ret.snap_lock \in LockedStates => ret.result = "none")
    /\ [][\A u \in DOMAIN users :
            LockedNow(users, u, now) =>
                \/ /\ u \in DOMAIN users'
                   /\ users'[u].account_locked_until # None
                   /\ users'[u].account_locked_until >= users[u].account_locked_until
                \/ /\ IsResetWrite(u)
                   /\ users'[u].account_locked_until = None
                   /\ users'[u].failed_login_attempts = 0]_vars

\* C12: in every reachable state the attempts field of a stored
\* verification code is between 0 and MAX_ATTEMPTS.
C12_AttemptsBounded ==
    \A u \in DOMAIN users :
        users[u].email_verification_code # NoCode =>
            /\ users[u].email_verification_code.attempts >= 0
            /\ users[u].email_verification_code.attempts <= MAX_ATTEMPTS

\* C13: create_verification_code leaves as the user's one stored code
\* exactly {the new code, expires_at = now + 15, attempts = 0}; and a
\* verify_code call made after a re-issuance that submits the code issued
\* before the latest one (different from the latest one) does not return
\* success.
C13_ReissueOverwrites ==
    /\ (ret.op = "create_verification_code" /\ ret.result = "data") =>
            /\ ret.match
            /\ ret.expires_at = ret.at + 15
    /\ (ret.op = "verify_code" /\ ret.was_previous) => ret.result # "success"

\* after a re-issuance the code issued before was submitted while the new
\* code was usable, and was refused as a wrong code
C13_Witness ==
    /\ ret.op = "verify_code"
    /\ ret.was_previous
    /\ ret.result = "invalid_code"

(***************************************************************************)
(* The life of a verification code.                                        *)
(***************************************************************************)
\* the user's code is not usable: none stored (never issued, or consumed),
\* expired, or exhausted
Dead(us, u, t) ==
    \/ us[u].email_verification_code = NoCode
    \/ t > us[u].email_verification_code.expires_at
    \/ us[u].email_verification_code.attempts >= MAX_ATTEMPTS

\* the step is a create_verification_code call for u
IsCreate(u) ==
    /\ ret'.op = "create_verification_code"
    /\ ret'.uid = u
    /\ pc' = pc
    /\ now' = now

\* the step is the completion of a verify_code call for u
IsVerifyEnd(p, u) ==
    /\ pc[p] \in {"vc_inc", "vc_ok"}
    /\ pc'[p] = "idle"
    /\ loc[p].uid = u

\* C14: a code that is consumed, expired or exhausted stays unusable until
\* create_verification_code is called for the user; verify_code returns
\* success only for a code it found usable; and verify_code never lowers
\* attempts, never changes expires_at and never stores a code.
C14_DeadUntilReissued ==
    /\ [](ret.op = "verify_code" /\ ret.result = "success" =>
            ret.has_code /\ ~ret.expired /\ ret.attempts < MAX_ATTEMPTS)
    /\ [][\A u \in DOMAIN users \cap DOMAIN users' :
          /\ (Dead(users, u, now) /\ ~IsCreate(u)) => Dead(users', u, now')
          /\ \A p \in Procs :
                IsVerifyEnd(p, u) =>
                    /\ \/ users'[u].email_verification_code = NoCode
                       \/ /\ users[u].email_verification_code # NoCode
                          /\ users'[u].email_verification_code.code =
                                users[u].email_verification_code.code
                          /\ users'[u].email_verification_code.expires_at =
                                users[u].email_verification_code.expires_at
                          /\ users'[u].email_verification_code.attempts >=
                                users[u].email_verification_code.attempts]_vars

\* C17: a verify_code call in which a store operation fails (the lookup, the
\* update of attempts or the update that verifies the user) returns
\* server_error.
C17_StoreFaultIsServerError ==
    (ret.op = "verify_code" /\ ret.fault) => ret.result = "server_error"

\* C19: the accessibility adjustment never narrows the quota: for a fixed
\* base quota and the same request times, every request that is allowed for
\* the caller without accessibility needs is allowed for the caller with
\* them.
C19_AccessibilityWidens ==
    (rl_ret.paired /\ rl_ret.plain_allowed) => rl_ret.allowed

\* the number of a key's requests that were allowed in the interval of one
\* effective window that ends now
AllowedInWindow(k) == Len(Recent(win[k].log, now, win[k].ewin))

\* C21 (as stated): for each key, in any interval whose length is the
\* effective window, at most effective-max requests are allowed.
C21_SlidingBound ==
    \A k \in DOMAIN win : win[k].emax # 0 => AllowedInWindow(k) <= win[k].emax

\* C21 (amended): the counter is a fixed window: between the creation of an
\* entry and its replacement at most effective-max requests are allowed, and
\* an interval of the window's length, which can overlap two consecutive
\* windows, holds at most twice the effective max less one (the request that
\* opens the first of the two windows lies a full window before the reset).
C21_FixedWindowBound ==
    \A k \in DOMAIN win : win[k].emax # 0 =>
        /\ win[k].allowed <= win[k].emax
        /\ AllowedInWindow(k) <= 2 * win[k].emax - 1

\* with quota 2 and window 2, three requests were allowed within two
\* minutes: one at the end of one window and two at the start of the next
C21_Witness ==
    \E k \in DOMAIN win :
        /\ win[k].emax = 2 /\ win[k].ewin = 2
        /\ AllowedInWindow(k) = 2 * win[k].emax - 1
        /\ rl_ret.key = k /\ rl_ret.allowed

\* a step that deletes entries deletes exactly those whose expires is earlier
\* than the current time and leaves every other entry as it was
SweepExact ==
    (DOMAIN request_counts \ DOMAIN request_counts' # {}) =>
        /\ DOMAIN request_counts \ DOMAIN request_counts'
              = {k \in DOMAIN request_counts : request_counts[k].expires < now}
        /\ \A k \in DOMAIN request_counts \cap DOMAIN request_counts' :
              request_counts[k].expires >= now
              /\ request_counts'[k] = request_counts[k]

\* C22: each sweep iteration removes exactly the expired entries and no live
\* one, and the sweep goes on iterating, also after an iteration that raised,
\* so an expired entry is eventually removed unless a new window replaces
\* it.
C22_SweepRemovesExpired ==
    /\ [][SweepExact]_vars
    /\ \A k \in AccKeys :
          (k \in DOMAIN request_counts /\ request_counts[k].expires < now)
            ~> (k \notin DOMAIN request_counts \/ request_counts[k].expires >= now)

\* a sweep removed the expired entry of the address and kept the entry of
\* the user, which expires at this very minute
C22_Witness ==
    \E ip \in Ips, ep \in Endpoints, u \in UserIds :
        /\ GetRateLimitKey(ip, ep, NoUser) \in DOMAIN unswept
        /\ GetRateLimitKey(ip, ep, NoUser) \notin DOMAIN request_counts
        /\ unswept[GetRateLimitKey(ip, ep, NoUser)].expires < now
        /\ GetRateLimitKey(ip, ep, u) \in DOMAIN request_counts
        /\ request_counts[GetRateLimitKey(ip, ep, u)].expires = now

\* a step that adds tokens is the end of a login_user call for which
\* authenticate_user returned the user (the password matched and the record
\* it read was not locked) and whose record has is_verified = true, and the
\* tokens are that user's
TokensOnlyByVerifiedLogin ==
    (tokens' # tokens) =>
        /\ ret'.op = "login" /\ ret'.login = "tokens"
        /\ ret'.result = "user" /\ ret'.pw_ok
        /\ ret'.snap_lock \notin LockedStates
        /\ ret'.snap_verified
        /\ \A tok \in tokens' \ tokens : tok.sub = ret'.uid

\* C23: login_user issues a token pair only when authenticate_user returned
\* the user and that user's is_verified is true; a login of an unverified
\* user ends without tokens, also with the correct password.
C23_TokensOnlyIfVerified ==
    /\ [][TokensOnlyByVerifiedLogin]_vars
    /\ []((ret.op = "login" /\ ~ret.snap_verified)
            => (ret.login # "tokens"
                /\ \A tok \in tokens : tok.sub # ret.uid))

\* a login with the correct password on a verified account whose lock had
\* run out received the token pair
C23_Witness ==
    /\ ret.op = "login" /\ ret.login = "tokens"
    /\ ret.pw_ok /\ ret.snap_verified /\ ret.snap_lock = "past"
    /\ \E tok \in tokens : tok.sub = ret.uid /\ tok.type = "access"

\* C24: a user has at most one stored reset token, a successful
\* reset_password leaves the list empty, and the token stored by one
\* forgot_password authorizes at most one successful reset_password, also
\* when two requests carrying it interleave.
C24_ResetTokenSingleUse ==
    /\ \A u \in DOMAIN users :
          /\ Len(users[u].password_reset_tokens) <= 1
          /\ hist[u].resets <= 1
    /\ (ret.op = "reset_password" /\ ret.result = "ok" /\ ret.uid \in DOMAIN users)
          => users[ret.uid].password_reset_tokens = <<>>

\* the entries of the map other than the entry of key k stay as they are
OthersUnchanged(k) ==
    /\ DOMAIN request_counts' \ {k} = DOMAIN request_counts \ {k}
    /\ \A j \in DOMAIN request_counts \ {k} : request_counts'[j] = request_counts[j]

\* C25: a check_rate_limit call works on the entry of one key, the key of
\* (user id, endpoint) when a user id is given (whatever the ip) and of
\* (ip, endpoint) otherwise; it leaves every other entry as it was, and a
\* call that returns allowed=false leaves the whole map as it was.
C25_KeyFrame ==
    [][\A k \in CallerKeys : IsRateCall(k) =>
          /\ k = (IF rl_ret'.user_id # NoUser
                  THEN <<"user", rl_ret'.user_id, rl_ret'.endpoint>>
                  ELSE <<"ip", rl_ret'.ip, rl_ret'.endpoint>>)
          /\ OthersUnchanged(k)
          /\ rl_ret'.allowed => k \in DOMAIN request_counts'
          /\ ~rl_ret'.allowed => request_counts' = request_counts]_vars

\* a call of user u1 from ip2 was denied on the counter that the user's call
\* from ip1 had filled just before; the entry still has its count and its
\* expires, and the address ip2 has no entry
C25_Witness ==
    /\ rl_ret.branch = "deny"
    /\ rl_ret.user_id = "u1" /\ rl_ret.ip = "ip2" /\ rl_ret.prev_ip = "ip1"
    /\ rl_ret.key \in DOMAIN request_counts
    /\ request_counts[rl_ret.key].expires = rl_ret.reset_time
    /\ request_counts[rl_ret.key].count = rl_ret.emax
    /\ <<"ip", "ip1", "login">> \in DOMAIN request_counts
    /\ <<"ip", "ip2", "login">> \notin DOMAIN request_counts

\* the step is an authenticate_user call that ends at the lock test
IsLockedRejection ==
    /\ ret'.op = "login" /\ ret'.why = "locked"
    /\ pc' = pc /\ now' = now

\* C26: an authenticate_user call that is rejected because the account is
\* locked leaves the user records as they were, whatever the password.
C26_LockedRejectionFrame ==
    [][IsLockedRejection => users' = users]_vars

\* a call with the correct password was rejected by the lock, and the record
\* still has its five failed attempts, its lock and no last_login
C26_Witness ==
    /\ ret.op = "login" /\ ret.why = "locked" /\ ret.pw_ok
    /\ ret.uid \in DOMAIN users
    /\ users[ret.uid].failed_login_attempts = MAX_LOGIN_ATTEMPTS
    /\ ret.failed_after = ret.snap_failed
    /\ ret.lock_after = ret.snap_lock
    /\ users[ret.uid].last_login = None

\* the step ends a successful authenticate_user or a successful
\* reset_password
IsCounterReset ==
    \/ ret'.op = "login" /\ ret'.result = "user"
    \/ ret'.op = "reset_password" /\ ret'.result = "ok"

\* C27: failed_login_attempts goes back to 0 only at the end of a successful
\* authenticate_user or of a successful password reset, the passing of time
\* leaves it alone, and a wrong-password call that finds an expired lock and
\* the counter still at the limit sets a new lock of LOCKOUT_DURATION.
C27_CounterSurvivesLockout ==
    /\ [][\A u \in DOMAIN users \cap DOMAIN users' :
            /\ (users[u].failed_login_attempts # 0
                /\ users'[u].failed_login_attempts = 0) => IsCounterReset
            /\ now' # now => users'[u] = users[u]]_vars
    /\ []((ret.op = "login" /\ ret.why = "wrong_password"
           /\ ret.snap_lock = "past" /\ ret.snap_failed >= MAX_LOGIN_ATTEMPTS)
            => (ret.did_lock /\ ret.lock_after = "fresh"))

\* C28: from the end of create_verification_code until a wrong guess is
\* compared with the new code, the stored attempts of the code is 0, also
\* when a verify_code call that read the previous code writes after the
\* re-issuance.
C28_FullBudgetAfterReissue ==
    \A u \in DOMAIN users :
        (users[u].email_verification_code # NoCode /\ ~hist[u].compared)
            => users[u].email_verification_code.attempts = 0

\* C29: of the verify_code calls made for a user between two issuances, also
\* concurrent ones, at most one returns success (successes counts, up to
\* two, the calls that returned success since the code was issued).
C29_AtMostOneSuccess ==
    \A u \in DOMAIN hist : hist[u].successes <= 1

\* the step is a profile update
IsProfileUpdate ==
    /\ ret'.op = "update_user_profile"
    /\ pc' = pc /\ now' = now

\* C30: is_verified goes from false to true only at the end of a successful
\* verify_code and never from true to false, and a profile update changes
\* neither is_verified nor failed_login_attempts, account_locked_until or
\* the verification code.
C30_VerifiedOnlyByCode ==
    [][\A u \in DOMAIN users \cap DOMAIN users' :
          /\ users'[u].is_verified # users[u].is_verified =>
                /\ users'[u].is_verified
                /\ ret'.op = "verify_code" /\ ret'.result = "success"
          /\ IsProfileUpdate =>
                /\ users'[u].is_verified = users[u].is_verified
                /\ users'[u].failed_login_attempts = users[u].failed_login_attempts
                /\ users'[u].account_locked_until = users[u].account_locked_until
                /\ users'[u].email_verification_code = users[u].email_verification_code]_vars

====
